---- MODULE Spec2Model ----
(***************************************************************************)
(* Model of the notebook dask_creating_spatial_data.ipynb.                 *)
(*                                                                         *)
(* Two phases of the notebook are modelled, each with its own              *)
(* specification over the same variables:                                  *)
(*   SpecAcquire  the download loop and the extraction loop (cells at      *)
(*                lines 94-106 and 117-120);                               *)
(*   Spec         the pipeline proper: read_csv per country, concat,       *)
(*                filter, geometry, compute, to_file (lines 187-310),      *)
(*                started from a data folder in which the three country    *)
(*                files have been extracted.                               *)
(*                                                                         *)
(* A dask dataframe is lazy: it is a list of partitions (blocks of lines   *)
(* of the source files) and a list of operations to apply to each          *)
(* partition.  Nothing is read or computed until compute() runs one task   *)
(* chain per partition; the chains of different partitions interleave.     *)
(*                                                                         *)
(* A row keeps four of the 19 columns: geonameid, feature class,           *)
(* longitude and latitude.  The other 15 columns are carried through every *)
(* step exactly as geonameid is.                                           *)
(***************************************************************************)
EXTENDS Integers, Sequences, FiniteSets, TLC

\* ---------------------------------------------------------------- bounds

\* Most lines the three country files hold together (each holds at least one).
MaxTotalRows == 4

\* How many times the user may run the download cell again.
MaxReruns == 1

\* ------------------------------------------------------ program constants

countries == <<"US", "MX", "CA">>

Countries == {countries[i] : i \in DOMAIN countries}

NCountries == Len(countries)

FilterValue == "T"

Columns == {"geonameid", "feature_class", "longitude", "latitude"}

\* --------------------------------------------------------------- helpers

Range(s) == {s[i] : i \in DOMAIN s}

Count(r, s) == Cardinality({i \in DOMAIN s : s[i] = r})

SameBag(s, t) == \A r \in Range(s) \cup Range(t) : Count(r, s) = Count(r, t)

RECURSIVE SortSet(_)
SortSet(S) ==
  IF S = {} THEN <<>>
  ELSE LET m == CHOOSE x \in S : \A y \in S : x <= y
       IN  <<m>> \o SortSet(S \ {m})

RECURSIVE Flatten(_)
Flatten(ss) == IF ss = <<>> THEN <<>> ELSE Head(ss) \o Flatten(Tail(ss))

\* ------------------------------------------------------------ acquisition

VARIABLES pc, zips, txt, fetched, dl_i, ex_i, reruns

\* download(url) fetches only when os.path.exists(filename) is false.
ShouldFetchAlways(state) == TRUE

ShouldFetch(state) == state = "absent"

\* What urlretrieve(url, filename) can leave at filename: the whole archive,
\* a truncated archive (the transfer broke), or nothing (no connection).
FetchOutcomes == {"complete", "partial", "absent"}

\* ------------------------------------------------------------- pipeline

VARIABLES files, dd_list, merged_dd, mountain_dd, tasks, mountain_df,
          had_layer, container, error

vars == <<pc, zips, txt, fetched, dl_i, ex_i, reruns, files, dd_list,
          merged_dd, mountain_dd, tasks, mountain_df, had_layer, container,
          error>>

pipelineVars == <<files, dd_list, merged_dd, mountain_dd, tasks, mountain_df,
                  had_layer, container, error>>

\* ------------------------------------------------- acquisition: actions

BlankFrame == [parts |-> <<>>, ops |-> <<>>, defined |-> FALSE]

NoLayer == [present |-> FALSE, rows |-> <<>>]

\* The pipeline's variables before the pipeline has run.
PipelineBlank ==
  /\ files = [c \in Countries |-> <<>>]
  /\ dd_list = <<>>
  /\ merged_dd = BlankFrame
  /\ mountain_dd = BlankFrame
  /\ tasks = <<>>
  /\ mountain_df = <<>>
  /\ had_layer = FALSE
  /\ container = NoLayer
  /\ error = "none"

\* The data folder may already hold archives from an earlier session.
InitAcquire ==
  /\ pc = "download"
  /\ zips \in [Countries -> {"absent", "complete", "partial"}]
  /\ txt = {}
  /\ fetched = [c \in Countries |-> 0]
  /\ dl_i = 1
  /\ ex_i = 1
  /\ reruns = 0
  /\ PipelineBlank

\* One iteration of "for country in countries: download(...)".  A failed
\* urlretrieve raises and ends the cell.  fetched counts the calls of
\* urlretrieve that wrote to the file.
DownloadStep ==
  /\ pc = "download"
  /\ dl_i <= NCountries
  /\ LET c == countries[dl_i]
     IN  IF ShouldFetch(zips[c])
         THEN \E outcome \in FetchOutcomes :
                /\ zips' = [zips EXCEPT ![c] = outcome]
                /\ fetched' = [fetched EXCEPT ![c] =
                                 IF outcome = "absent" THEN @ ELSE @ + 1]
                /\ IF outcome = "complete"
                   THEN /\ dl_i' = dl_i + 1
                        /\ pc' = IF dl_i = NCountries THEN "extract" ELSE pc
                   ELSE /\ dl_i' = dl_i
                        /\ pc' = "dl_error"
         ELSE /\ UNCHANGED <<zips, fetched>>
              /\ dl_i' = dl_i + 1
              /\ pc' = IF dl_i = NCountries THEN "extract" ELSE pc
  /\ UNCHANGED <<txt, ex_i, reruns>>
  /\ UNCHANGED pipelineVars

\* One iteration of the extraction loop: zipfile.ZipFile(path).extractall.
\* A missing archive (FileNotFoundError) or a truncated one (BadZipFile)
\* raises and ends the cell.
ExtractStep ==
  /\ pc = "extract"
  /\ ex_i <= NCountries
  /\ LET c == countries[ex_i]
     IN  IF zips[c] = "complete"
         THEN /\ txt' = txt \cup {c}
              /\ ex_i' = ex_i + 1
              /\ pc' = IF ex_i = NCountries THEN "acquired" ELSE pc
         ELSE /\ pc' = "ex_error"
              /\ UNCHANGED <<txt, ex_i>>
  /\ UNCHANGED <<zips, fetched, dl_i, reruns>>
  /\ UNCHANGED pipelineVars

\* The user runs the download cell again (after an error, or after the
\* cells have run) and execution goes on from there.
RerunDownload ==
  /\ pc \in {"dl_error", "ex_error", "acquired"}
  /\ reruns < MaxReruns
  /\ reruns' = reruns + 1
  /\ pc' = "download"
  /\ dl_i' = 1
  /\ ex_i' = 1
  /\ UNCHANGED <<zips, txt, fetched>>
  /\ UNCHANGED pipelineVars

NextAcquire == DownloadStep \/ ExtractStep \/ RerunDownload

SpecAcquire == InitAcquire /\ [][NextAcquire]_vars

\* --------------------------------------------------- pipeline: the rows

\* The lines a country file may hold, as the text of the fields: a mountain,
\* a populated place, a mountain whose longitude is out of [-180, 180], and
\* a mountain whose longitude field is not a number.
RowKinds ==
  { [feature_class |-> "T", longitude |-> "10",  latitude |-> "20"],
    [feature_class |-> "P", longitude |-> "10",  latitude |-> "20"],
    [feature_class |-> "T", longitude |-> "200", latitude |-> "20"],
    [feature_class |-> "T", longitude |-> "abc", latitude |-> "20"] }

\* Line i of a file: geonameid is the line number, so the same identifier
\* occurs in different files.
RawRow(i, k) ==
  [geonameid |-> i, feature_class |-> k.feature_class,
   longitude |-> k.longitude, latitude |-> k.latitude]

\* dtype float: the text of a field to its number.
FloatText == {"10", "20", "200"}

IsNumeric(s) == s \in FloatText

ParseFloat(s) ==
  CASE s = "10" -> 10
    [] s = "20" -> 20
    [] s = "200" -> 200

Parseable(raw) == IsNumeric(raw.longitude) /\ IsNumeric(raw.latitude)

\* pandas' parse of one line with names = column_names, dtype = dtypes.
ParseRow(raw) ==
  [geonameid |-> raw.geonameid, feature_class |-> raw.feature_class,
   longitude |-> ParseFloat(raw.longitude),
   latitude |-> ParseFloat(raw.latitude)]

\* The lines of a file or of a block, parsed.
ParseRows(raws) == [i \in DOMAIN raws |-> ParseRow(raws[i])]

\* ------------------------------------------- pipeline: lazy dataframes

\* dd.read_csv cuts a file into blocks of whole lines, one partition each:
\* the blocks that end at the lines in cuts and at the last line n.
BlocksOf(c, n, cuts) ==
  LET ends == SortSet(cuts \cup {n})
  IN  [k \in DOMAIN ends |->
         [file |-> c, lo |-> IF k = 1 THEN 1 ELSE ends[k - 1] + 1,
          hi |-> ends[k]]]

\* The lines of one partition, parsed.
ReadBlock(part) ==
  ParseRows(SubSeq(files[part.file], part.lo, part.hi))

BlockParseable(part) ==
  \A i \in part.lo .. part.hi : Parseable(files[part.file][i])

\* dd.concat(dd_list): the partitions of the frames, in the order of the list.
ConcatDropsLast(frames) ==
  [parts |-> Flatten([i \in 1 .. Len(frames) - 1 |-> frames[i].parts]),
   ops |-> <<>>, defined |-> TRUE]

Concat(frames) ==
  [parts |-> Flatten([i \in DOMAIN frames |-> frames[i].parts]),
   ops |-> <<>>, defined |-> TRUE]

\* merged_dd[merged_dd['feature class'] == v] on the rows of one partition.
FilterRowsNegated(rows, v) ==
  SelectSeq(rows, LAMBDA r : r.feature_class # v)

FilterRows(rows, v) ==
  SelectSeq(rows, LAMBDA r : r.feature_class = v)

\* df[mask]: a new lazy frame, the parent's partitions with one more operation.
GetitemEq(frame, v) ==
  [frame EXCEPT !.ops = Append(@, [op |-> "filter", arg |-> v])]

\* geopandas.points_from_xy(x = df[x], y = df[y]) for one row.
PointSwapped(r, xcol, ycol) == [x |-> r[ycol], y |-> r[xcol]]

Point(r, xcol, ycol) == [x |-> r[xcol], y |-> r[ycol]]

\* The row with the new column 'geometry'.
WithGeometry(r, g) ==
  [col \in DOMAIN r \cup {"geometry"} |->
     IF col = "geometry" THEN g ELSE r[col]]

PointsFromXY(rows, xcol, ycol) ==
  [i \in DOMAIN rows |-> WithGeometry(rows[i], Point(rows[i], xcol, ycol))]

\* mountain_dd['geometry'] = ...: the assignment changes the frame that
\* mountain_dd names and no other frame.
SetitemGeometryAliased(parent, child) ==
  LET g == [op |-> "geometry", arg |-> "longitude,latitude"]
  IN  [parent |-> [parent EXCEPT !.ops = Append(@, g)],
       child |-> [child EXCEPT !.ops = Append(@, g)]]

SetitemGeometry(parent, child) ==
  LET g == [op |-> "geometry", arg |-> "longitude,latitude"]
  IN  [parent |-> parent, child |-> [child EXCEPT !.ops = Append(@, g)]]

\* One operation of a frame applied to the rows of one partition.
ApplyOp(o, rows) ==
  IF o.op = "filter" THEN FilterRows(rows, o.arg)
  ELSE PointsFromXY(rows, "longitude", "latitude")

RECURSIVE ApplyOps(_, _)
ApplyOps(ops, rows) ==
  IF ops = <<>> THEN rows ELSE ApplyOps(Tail(ops), ApplyOp(Head(ops), rows))

\* ------------------------------------------------- pipeline: actions

\* The layer 'mountains' a container left by an earlier run holds.
OldLayer ==
  [present |-> TRUE,
   rows |-> << [geonameid |-> 99, feature_class |-> "T", longitude |-> 20,
                latitude |-> 10, geometry |-> [x |-> 20, y |-> 10]] >>]

Before == IF had_layer THEN OldLayer ELSE NoLayer

TotalRows(f) == Len(f[countries[1]]) + Len(f[countries[2]]) + Len(f[countries[3]])

\* The state after acquisition: the three archives are downloaded and
\* extracted, each country file holds at least one line, and the output
\* folder holds either nothing or a container with a layer 'mountains'.
Init ==
  /\ pc = "load"
  /\ zips = [c \in Countries |-> "complete"]
  /\ txt = Countries
  /\ fetched = [c \in Countries |-> 1]
  /\ dl_i = NCountries + 1
  /\ ex_i = NCountries + 1
  /\ reruns = 0
  /\ \E kinds \in [Countries ->
                     UNION {[1 .. n -> RowKinds] : n \in 1 .. MaxTotalRows - 2}] :
       /\ TotalRows(kinds) <= MaxTotalRows
       /\ files = [c \in Countries |->
                     [i \in DOMAIN kinds[c] |-> RawRow(i, kinds[c][i])]]
  /\ dd_list = <<>>
  /\ merged_dd = BlankFrame
  /\ mountain_dd = BlankFrame
  /\ tasks = <<>>
  /\ mountain_df = <<>>
  /\ had_layer \in BOOLEAN
  /\ container = Before
  /\ error = "none"

Raise(e) ==
  /\ pc' = "failed"
  /\ error' = e

\* One iteration of the loading loop: dd.read_csv parses a sample from the
\* head of the file with the given dtypes (the first line is always in the
\* sample, a later line may be) and returns a lazy frame of blocks.  A line
\* of the sample that does not parse raises ValueError.
LoadStep ==
  /\ pc = "load"
  /\ Len(dd_list) < NCountries
  /\ LET c == countries[Len(dd_list) + 1]
         n == Len(files[c])
         bad == {i \in 1 .. n : ~Parseable(files[c][i])}
     IN  \/ /\ \E sampled \in 1 .. n : \E i \in bad : i <= sampled
            /\ Raise("ValueError")
            /\ UNCHANGED dd_list
         \/ /\ 1 \notin bad
            /\ \E cuts \in SUBSET (1 .. n - 1) :
                 dd_list' = Append(dd_list,
                                   [parts |-> BlocksOf(c, n, cuts),
                                    ops |-> <<>>, defined |-> TRUE])
            /\ pc' = IF Len(dd_list) + 1 = NCountries THEN "concat" ELSE pc
            /\ UNCHANGED error
  /\ UNCHANGED <<zips, txt, fetched, dl_i, ex_i, reruns>>
  /\ UNCHANGED <<files, merged_dd, mountain_dd, tasks, mountain_df,
                 had_layer, container>>

\* merged_dd = dd.concat(dd_list)
ConcatStep ==
  /\ pc = "concat"
  /\ merged_dd' = Concat(dd_list)
  /\ pc' = "filter"
  /\ UNCHANGED <<zips, txt, fetched, dl_i, ex_i, reruns>>
  /\ UNCHANGED <<files, dd_list, mountain_dd, tasks, mountain_df, had_layer,
                 container, error>>

\* mountain_dd = merged_dd[merged_dd['feature class'] == 'T']
FilterStep ==
  /\ pc = "filter"
  /\ mountain_dd' = GetitemEq(merged_dd, FilterValue)
  /\ pc' = "geometry"
  /\ UNCHANGED <<zips, txt, fetched, dl_i, ex_i, reruns>>
  /\ UNCHANGED <<files, dd_list, merged_dd, tasks, mountain_df, had_layer,
                 container, error>>

\* mountain_dd['geometry'] = dg.points_from_xy(mountain_dd, 'longitude',
\*                                             'latitude', crs = 'EPSG:4326')
GeometryStep ==
  /\ pc = "geometry"
  /\ LET r == SetitemGeometry(merged_dd, mountain_dd)
     IN  /\ merged_dd' = r.parent
         /\ mountain_dd' = r.child
  /\ pc' = "compute"
  /\ UNCHANGED <<zips, txt, fetched, dl_i, ex_i, reruns>>
  /\ UNCHANGED <<files, dd_list, tasks, mountain_df, had_layer, container,
                 error>>

\* dg.from_dask_dataframe(mountain_dd).compute(): one task per partition,
\* which reads the partition's block and applies the frame's operations to
\* it in order.  No task has run yet.
ComputeStart ==
  /\ pc = "compute"
  /\ tasks' = [p \in DOMAIN mountain_dd.parts |-> [done |-> FALSE, rows |-> <<>>]]
  /\ pc' = "computing"
  /\ UNCHANGED <<zips, txt, fetched, dl_i, ex_i, reruns>>
  /\ UNCHANGED <<files, dd_list, merged_dd, mountain_dd, mountain_df,
                 had_layer, container, error>>

\* A worker runs the task of partition p; the workers take the partitions
\* in any order.  A block with a line that does not parse raises ValueError
\* out of compute().
TaskStep(p) ==
  /\ pc = "computing"
  /\ ~tasks[p].done
  /\ IF BlockParseable(mountain_dd.parts[p])
     THEN /\ tasks' = [tasks EXCEPT ![p] =
                         [done |-> TRUE,
                          rows |-> ApplyOps(mountain_dd.ops,
                                            ReadBlock(mountain_dd.parts[p]))]]
          /\ UNCHANGED <<pc, error>>
     ELSE /\ Raise("ValueError")
          /\ UNCHANGED tasks
  /\ UNCHANGED <<zips, txt, fetched, dl_i, ex_i, reruns>>
  /\ UNCHANGED <<files, dd_list, merged_dd, mountain_dd, mountain_df,
                 had_layer, container>>

\* compute() returns when every partition's task has finished.
ComputeDoneEarly(ts) == \E p \in DOMAIN ts : ts[p].done

ComputeDone(ts) == \A p \in DOMAIN ts : ts[p].done

\* The partitions' results, concatenated in partition order.
GatherDropsLast(ts) == Flatten([p \in 1 .. Len(ts) - 1 |-> ts[p].rows])

Gather(ts) == Flatten([p \in DOMAIN ts |-> ts[p].rows])

\* mountain_df = ... .compute()
ComputeReturn ==
  /\ pc = "computing"
  /\ ComputeDone(tasks)
  /\ mountain_df' = Gather(tasks)
  /\ pc' = "write"
  /\ UNCHANGED <<zips, txt, fetched, dl_i, ex_i, reruns>>
  /\ UNCHANGED <<files, dd_list, merged_dd, mountain_dd, tasks, had_layer,
                 container, error>>

\* mountain_df.to_file(driver = 'GPKG', filename = output_path,
\*                     layer = 'mountains', encoding = 'utf-8')
\* in its default mode 'w': the layer is created, and a layer of that name
\* already in the container is replaced.
WriteOpen ==
  /\ pc = "write"
  /\ container' = [present |-> TRUE, rows |-> <<>>]
  /\ pc' = "writing"
  /\ UNCHANGED <<zips, txt, fetched, dl_i, ex_i, reruns>>
  /\ UNCHANGED <<files, dd_list, merged_dd, mountain_dd, tasks, mountain_df,
                 had_layer, error>>

\* The next record of mountain_df goes into the layer.
WriteRecord ==
  /\ pc = "writing"
  /\ Len(container.rows) < Len(mountain_df)
  /\ container' = [container EXCEPT
                     !.rows = Append(@, mountain_df[Len(@) + 1])]
  /\ UNCHANGED <<zips, txt, fetched, dl_i, ex_i, reruns>>
  /\ UNCHANGED <<pc, files, dd_list, merged_dd, mountain_dd, tasks,
                 mountain_df, had_layer, error>>

\* to_file returns and the cell prints 'Successfully written output file'.
WriteClose ==
  /\ pc = "writing"
  /\ Len(container.rows) = Len(mountain_df)
  /\ pc' = "done"
  /\ UNCHANGED <<zips, txt, fetched, dl_i, ex_i, reruns>>
  /\ UNCHANGED pipelineVars

\* The write is cut short (an I/O error, the user interrupts the kernel):
\* to_file raises and what it has written so far stays in the file.
WriteInterrupt ==
  /\ pc \in {"write", "writing"}
  /\ Raise("IOError")
  /\ UNCHANGED <<zips, txt, fetched, dl_i, ex_i, reruns>>
  /\ UNCHANGED <<files, dd_list, merged_dd, mountain_dd, tasks, mountain_df,
                 had_layer, container>>

Next ==
  \/ LoadStep
  \/ ConcatStep
  \/ FilterStep
  \/ GeometryStep
  \/ ComputeStart
  \/ \E p \in DOMAIN tasks : TaskStep(p)
  \/ ComputeReturn
  \/ WriteOpen
  \/ WriteRecord
  \/ WriteClose
  \/ WriteInterrupt

Spec == Init /\ [][Next]_vars

\* ------------------------------------------------ what the claims read

\* The rows a lazy frame stands for: each partition read and the frame's
\* operations applied to it, in partition order.
Eval(frame) ==
  Flatten([p \in DOMAIN frame.parts |->
             ApplyOps(frame.ops, ReadBlock(frame.parts[p]))])

\* The lines of the source files, parsed, the files taken in the given order.
FileRows(order) ==
  Flatten([k \in DOMAIN order |-> ParseRows(files[order[k]])])

AllParseable ==
  \A c \in Countries : \A i \in DOMAIN files[c] : Parseable(files[c][i])

\* compute() has returned mountain_df.
Materialized ==
  \/ pc \in {"write", "writing", "done"}
  \/ pc = "failed" /\ error = "IOError"

StripGeometry(r) == [col \in DOMAIN r \ {"geometry"} |-> r[col]]

WithoutGeometry(rows) == [i \in DOMAIN rows |-> StripGeometry(rows[i])]

Perms == {f \in [DOMAIN countries -> DOMAIN countries] :
            \A i, j \in DOMAIN countries : f[i] = f[j] => i = j}

HasOp(frame, name) == \E k \in DOMAIN frame.ops : frame.ops[k].op = name

\* --------------------------------------------------------------- claims

\* C1: the filtered dataset holds exactly the records of the merged dataset
\* whose feature class is the filter value 'T': every record of the result
\* is a record of the merged dataset with feature class 'T', and every
\* record of the merged dataset occurs in the result as often as in the
\* merged dataset when its class is 'T' and not at all otherwise.
C1_FilterExact ==
  Materialized =>
    LET D == Eval(merged_dd)
        R == WithoutGeometry(mountain_df)
    IN  /\ \A i \in DOMAIN R :
             R[i].feature_class = FilterValue /\ R[i] \in Range(D)
        /\ \A r \in Range(D) :
             Count(r, R) = IF r.feature_class = FilterValue
                           THEN Count(r, D) ELSE 0

\* The scenario of C1: rows with classes T, P, T filtered for T give rows 1
\* and 3.
C1_Witness ==
  /\ Materialized
  /\ LET D == Eval(merged_dd)
     IN  /\ [i \in DOMAIN D |-> D[i].feature_class] = <<"T", "P", "T">>
         /\ WithoutGeometry(mountain_df) = <<D[1], D[3]>>

\* C2: every record of the filtered dataset gets exactly one new attribute
\* 'geometry', the point (x = its longitude, y = its latitude); its other
\* attributes keep their values, and the stage adds or drops no record.
C2_GeometryRoundTrip ==
  Materialized =>
    LET F == FilterRows(Eval(merged_dd), FilterValue)
    IN  /\ Len(mountain_df) = Len(F)
        /\ \A i \in DOMAIN mountain_df :
             /\ DOMAIN mountain_df[i] = Columns \cup {"geometry"}
             /\ mountain_df[i].geometry.x = F[i].longitude
             /\ mountain_df[i].geometry.y = F[i].latitude
             /\ \A col \in Columns : mountain_df[i][col] = F[i][col]

C2_Witness ==
  /\ Materialized
  /\ \E i \in DOMAIN mountain_df :
       /\ mountain_df[i].longitude = 10
       /\ mountain_df[i].latitude = 20
       /\ mountain_df[i].geometry = [x |-> 10, y |-> 20]

\* C3: the merged dataset has the rows of all source files: every line of
\* every file is in exactly one partition of it, its rows are the rows of
\* the files (rows with the same identifier from different files are all
\* kept), and concatenating the per-file frames in any other order gives
\* the same collection of rows (compared in the state the concatenation
\* leaves; merged_dd does not change afterwards).
C3_ConcatIsUnion ==
  merged_dd.defined =>
    /\ \A c \in Countries : \A i \in DOMAIN files[c] :
         Cardinality({p \in DOMAIN merged_dd.parts :
                        /\ merged_dd.parts[p].file = c
                        /\ merged_dd.parts[p].lo <= i
                        /\ i <= merged_dd.parts[p].hi}) = 1
    /\ \A p \in DOMAIN merged_dd.parts :
         /\ 1 <= merged_dd.parts[p].lo
         /\ merged_dd.parts[p].lo <= merged_dd.parts[p].hi
         /\ merged_dd.parts[p].hi <= Len(files[merged_dd.parts[p].file])
    /\ AllParseable =>
         LET M == Eval(merged_dd)
             U == FileRows(countries)
         IN  /\ \A r \in Range(M) \cup Range(U) : Count(r, M) = Count(r, U)
             /\ Len(M) = TotalRows(files)
             /\ pc = "filter" => \A f \in Perms :
                  LET N == Eval(Concat([k \in DOMAIN dd_list |->
                                          dd_list[f[k]]]))
                  IN  /\ Len(N) = Len(M)
                      /\ \A r \in Range(M) : Count(r, N) = Count(r, M)

\* Two files hold a row with the same identifier, and one file holds two rows.
C3_Witness ==
  /\ merged_dd.defined
  /\ AllParseable
  /\ Len(Eval(merged_dd)) = 4
  /\ Cardinality({i \in 1 .. 4 : Eval(merged_dd)[i].geonameid = 1}) = 3

\* C4: after any write attempt, finished, failed or interrupted, the output
\* location holds either the full layer (all records of mountain_df) or
\* exactly what it held before the write started.
C4_WriteAtomic ==
  \/ container = Before
  \/ Materialized /\ container = [present |-> TRUE, rows |-> mountain_df]

\* A filtered row whose longitude or latitude is not a number or is out of
\* range.
Offending(raw) ==
  /\ raw.feature_class = FilterValue
  /\ \/ ~Parseable(raw)
     \/ ParseFloat(raw.longitude) < -180
     \/ ParseFloat(raw.longitude) > 180
     \/ ParseFloat(raw.latitude) < -90
     \/ ParseFloat(raw.latitude) > 90

RawLines == Flatten([k \in DOMAIN countries |-> files[countries[k]]])

OffendingCount == Cardinality({i \in DOMAIN RawLines : Offending(RawLines[i])})

ValidFilteredRows ==
  ParseRows(
      SelectSeq(RawLines,
                LAMBDA raw : raw.feature_class = FilterValue /\ ~Offending(raw)))

\* The notebook reports no warning: its only message is the success line.
WarningsReported == 0

\* C5: when a filtered row has a bad longitude or latitude, then in strict
\* mode the run fails with GeometryConstructionError and nothing has been
\* written, and in lenient mode the run writes exactly the valid rows and
\* reports as many warnings as there are offending rows.  The notebook has
\* no mode parameter, so its one behaviour has to meet the claim for
\* whichever mode is asked for.
C5_BadCoordinateHandled ==
  OffendingCount > 0 =>
    \A strict \in BOOLEAN :
      IF strict
      THEN /\ container = Before
           /\ pc \notin {"writing", "done"}
           /\ pc = "failed" => error = "GeometryConstructionError"
      ELSE /\ error # "ValueError"
           /\ pc = "done" =>
                /\ WithoutGeometry(container.rows) = ValidFilteredRows
                /\ WarningsReported = OffendingCount

Policies == {"overwrite", "fail", "append"}

\* C6: when the container already has a layer 'mountains' and the policy is
\* fail-on-conflict, the write returns LayerConflictError and the layer is
\* left as it was; an existing layer is replaced only under the overwrite
\* policy.  The notebook has no policy parameter, so its one behaviour has to
\* meet the claim for whichever policy is asked for.
C6_ConflictPolicy ==
  had_layer =>
    \A policy \in Policies :
      /\ policy = "fail" =>
           /\ container = OldLayer
           /\ pc \in {"writing", "done"} => FALSE
           /\ (pc = "failed" /\ Materialized) => error = "LayerConflictError"
      /\ container # OldLayer => policy = "overwrite"

\* C7: deriving mountain_dd from merged_dd and assigning its 'geometry'
\* column never change merged_dd: once merged_dd is defined no step changes
\* it or the files it reads, so the rows it stands for stay the same; it
\* never gets a 'geometry' column; and the frame a second filter (for
\* another feature class) would derive from it is the same before and after
\* every step.
C7_ParentUnchanged ==
  /\ [](merged_dd.defined => merged_dd.ops = <<>>)
  /\ []((merged_dd.defined /\ AllParseable) =>
          LET M == Eval(merged_dd)
          IN  \A i \in DOMAIN M : DOMAIN M[i] = Columns)
  /\ [][merged_dd.defined =>
          /\ merged_dd' = merged_dd
          /\ files' = files
          /\ GetitemEq(merged_dd, "P")' = GetitemEq(merged_dd, "P")]_vars

\* mountain_dd has its geometry column and merged_dd is as it was.
C7_Witness ==
  /\ Materialized
  /\ HasOp(mountain_dd, "geometry")
  /\ merged_dd = Concat(dd_list)
  /\ Len(mountain_df) >= 1

\* C8 as stated: every stage starts only after the previous stage has fully
\* produced its output; no partition is filtered or given its geometry
\* before every partition has been read, and the write starts only after
\* the whole dataset is materialized.
C8_StagesStrictlySequential ==
  /\ \A p, q \in DOMAIN tasks : tasks[p].done => tasks[q].done
  /\ pc \in {"writing", "done"} => \A p \in DOMAIN tasks : tasks[p].done

FullOps ==
  << [op |-> "filter", arg |-> FilterValue],
     [op |-> "geometry", arg |-> "longitude,latitude"] >>

\* C8 as amended: the frames are defined in the order loader, filter,
\* geometry; compute() starts only on the fully defined frame; a finished
\* task holds its whole partition read, then filtered, then given its
\* geometry; and the write starts only after every task has finished and
\* mountain_df holds all their results.
C8_StageOrder ==
  /\ merged_dd.defined => Len(dd_list) = NCountries
  /\ mountain_dd.defined => merged_dd.defined
  /\ mountain_dd.ops \in {<<>>, SubSeq(FullOps, 1, 1), FullOps}
  /\ pc \in {"load", "concat", "filter"} => ~mountain_dd.defined
  /\ tasks # <<>> =>
       /\ mountain_dd.ops = FullOps
       /\ Len(tasks) = Len(mountain_dd.parts)
       /\ \A p \in DOMAIN tasks :
            IF tasks[p].done
            THEN tasks[p].rows =
                   PointsFromXY(FilterRows(ReadBlock(mountain_dd.parts[p]),
                                           FilterValue),
                                "longitude", "latitude")
            ELSE tasks[p].rows = <<>>
  /\ (pc \in {"write", "writing", "done"} \/ container # Before) =>
       /\ tasks # <<>>
       /\ \A p \in DOMAIN tasks : tasks[p].done
       /\ mountain_df = Flatten([p \in DOMAIN tasks |-> tasks[p].rows])

\* The write has started on a dataset of several partitions.
C8_Witness ==
  /\ pc = "writing"
  /\ Len(tasks) > NCountries
  /\ Len(mountain_df) >= 2
  /\ Len(container.rows) = 1

\* C9: however the files are cut into partitions and in whatever order the
\* workers finish them, the materialized result holds the same records,
\* each with the same geometry, as filtering and building geometry over the
\* whole dataset in one piece.
C9_PartitionIndependence ==
  Materialized =>
    SameBag(mountain_df, ApplyOps(mountain_dd.ops, FileRows(countries)))

\* A file was cut into two partitions and both contribute a record.
C9_Witness ==
  /\ Materialized
  /\ \E p \in DOMAIN tasks :
       /\ p < Len(tasks)
       /\ mountain_dd.parts[p].file = mountain_dd.parts[p + 1].file
       /\ tasks[p].rows # <<>>
       /\ tasks[p + 1].rows # <<>>

\* C10: download fetches an archive only when its file is absent and never
\* overwrites a file that is present, so over any sequence of runs of the
\* download loop each archive is fetched at most once; and extraction is
\* attempted only after the download loop has finished for all countries.
C10_DownloadIdempotent ==
  /\ [](\A c \in Countries : fetched[c] <= 1)
  /\ [](pc \in {"extract", "ex_error", "acquired"} =>
          /\ dl_i = NCountries + 1
          /\ \A c \in Countries : zips[c] # "absent")
  /\ [](txt # {} => \A c \in txt : zips[c] = "complete")
  /\ [][\A c \in Countries :
          /\ zips[c] # "absent" =>
               zips'[c] = zips[c] /\ fetched'[c] = fetched[c]
          /\ fetched'[c] \in {fetched[c], fetched[c] + 1}]_vars

\* The download loop was run a second time over archives fetched the first
\* time.
C10_Witness ==
  /\ reruns = 1
  /\ pc = "extract"
  /\ \A c \in Countries : fetched[c] = 1

====
